---- MODULE Spec2Model ----
(***************************************************************************)
(* Model of the Mandelbrot viewer of src/main.rs: the Vec2 arithmetic, the *)
(* escape-time evaluator, the rasterizer render_mandelbrot and the zoom    *)
(* stack driven by the frame loop of main.                                 *)
(*                                                                         *)
(* Every number the program computes with is an f64.  The model keeps the  *)
(* IEEE-754 binary64 semantics (53-bit significand, round to nearest even, *)
(* subnormals, infinities, NaN), because height truncation, colour         *)
(* truncation and the repeated division of the extent by 4 all depend on   *)
(* it.  A significand is a natural number held as a little-endian sequence *)
(* of limbs, since it does not fit a 32-bit integer.                       *)
(***************************************************************************)
EXTENDS Integers, Sequences, FiniteSets, TLC

(***************************************************************************)
(* Natural numbers of arbitrary size: little-endian limbs in 0..LimbBase-1 *)
(* with no most-significant zero limb; zero is the empty sequence.         *)
(***************************************************************************)
LimbBits == 15
LimbBase == 2^LimbBits

\* the limbs of a function on 1..n, as a sequence
BSeq(f) == f \o <<>>

\* a without its most-significant zero limbs
BNorm(a) ==
  IF \A i \in 1..Len(a) : a[i] = 0 THEN <<>>
  ELSE SubSeq(a, 1, CHOOSE k \in 1..Len(a) :
                      a[k] # 0 /\ \A j \in (k + 1)..Len(a) : a[j] = 0)

RECURSIVE BFromInt(_)
BFromInt(n) == IF n = 0 THEN <<>> ELSE <<n % LimbBase>> \o BFromInt(n \div LimbBase)

RECURSIVE BToInt(_)
BToInt(a) == IF a = <<>> THEN 0 ELSE a[1] + LimbBase * BToInt(Tail(a))

BLimb(a, i) == IF i <= Len(a) THEN a[i] ELSE 0

\* the carry into limb i of a + b: some limb below made one and every limb
\* between passes it on
BCarry(a, b, i) ==
  \E j \in 1..(i - 1) :
    /\ BLimb(a, j) + BLimb(b, j) >= LimbBase
    /\ \A k \in (j + 1)..(i - 1) : BLimb(a, k) + BLimb(b, k) = LimbBase - 1

BAdd(a, b) ==
  BNorm(BSeq([i \in 1..((IF Len(a) > Len(b) THEN Len(a) ELSE Len(b)) + 1) |->
                (BLimb(a, i) + BLimb(b, i) + (IF BCarry(a, b, i) THEN 1 ELSE 0))
                  % LimbBase]))

\* the borrow from limb i of a - b
BBorrow(a, b, i) ==
  \E j \in 1..(i - 1) :
    /\ BLimb(a, j) < BLimb(b, j)
    /\ \A k \in (j + 1)..(i - 1) : BLimb(a, k) = BLimb(b, k)

\* a - b for a >= b
BSub(a, b) ==
  BNorm(BSeq([i \in 1..Len(a) |->
                (LimbBase + BLimb(a, i) - BLimb(b, i) - (IF BBorrow(a, b, i) THEN 1 ELSE 0))
                  % LimbBase]))

\* -1, 0, 1 as a < b, a = b, a > b: the most significant limb that differs decides
BCmpAt(a, b, k) == IF a[k] < b[k] THEN -1 ELSE 1

BCmp(a, b) ==
  IF Len(a) < Len(b) THEN -1
  ELSE IF Len(a) > Len(b) THEN 1
  ELSE IF \A i \in 1..Len(a) : a[i] = b[i] THEN 0
  ELSE BCmpAt(a, b, CHOOSE k \in 1..Len(a) :
                      a[k] # b[k] /\ \A j \in (k + 1)..Len(a) : a[j] = b[j])

\* a * k for a small k < LimbBase: the low halves of the limb products plus
\* their high halves one limb up
BMulSmall(a, k) ==
  IF k = 0 \/ a = <<>> THEN <<>>
  ELSE BAdd(BSeq([i \in 1..Len(a) |-> (a[i] * k) % LimbBase]),
            <<0>> \o [i \in 1..Len(a) |-> (a[i] * k) \div LimbBase])

BZeros(n) == [i \in 1..n |-> 0]

\* a times the limbs lo..hi of b, each at its place
RECURSIVE BMulRange(_, _, _, _)
BMulRange(a, b, lo, hi) ==
  IF lo = hi THEN BZeros(lo - 1) \o BMulSmall(a, b[lo])
  ELSE BAdd(BMulRange(a, b, lo, (lo + hi) \div 2),
            BMulRange(a, b, (lo + hi) \div 2 + 1, hi))

BMul(a, b) == IF a = <<>> \/ b = <<>> THEN <<>> ELSE BNorm(BMulRange(a, b, 1, Len(b)))

\* a * 2^n
BShl(a, n) ==
  IF a = <<>> THEN a
  ELSE BZeros(n \div LimbBits) \o BMulSmall(a, 2^(n % LimbBits))

\* floor(a / 2^n)
BShr(a, n) ==
  LET q == n \div LimbBits
      r == n % LimbBits
      d == 2^r
      u == 2^(LimbBits - r)
  IN IF q >= Len(a) THEN <<>>
     ELSE BNorm(BSeq([i \in 1..(Len(a) - q) |->
                        (a[i + q] \div d) + (BLimb(a, i + q + 1) % d) * u]))

\* a mod 2^n # 0
BLowNonZero(a, n) ==
  LET q == n \div LimbBits
      r == n % LimbBits
  IN \/ \E i \in 1..q : BLimb(a, i) # 0
     \/ BLimb(a, q + 1) % (2^r) # 0

\* bit i of a, bit 0 the least significant
BBit(a, i) == (BLimb(a, i \div LimbBits + 1) \div 2^(i % LimbBits)) % 2

\* number of significant bits of a limb
IntBitLen(n) ==
  IF n = 0 THEN 0 ELSE CHOOSE k \in 1..LimbBits : 2^(k - 1) <= n /\ n < 2^k

\* number of significant bits of a
BLen(a) == IF a = <<>> THEN 0 ELSE LimbBits * (Len(a) - 1) + IntBitLen(a[Len(a)])

BIsOdd(a) == a # <<>> /\ a[1] % 2 = 1

\* the quotient digit of long division: the largest d with d * b <= r, for
\* r < b * LimbBase and b's top limb at least LimbBase / 2.  The estimate
\* from the top limbs is never too small and at most 2 too large.
RECURSIVE BDigitDown(_, _, _)
BDigitDown(r, b, d) ==
  IF BCmp(BMulSmall(b, d), r) <= 0 THEN d ELSE BDigitDown(r, b, d - 1)

BDigit(r, b) ==
  LET n == Len(b)
      est == (BLimb(r, n + 1) * LimbBase + BLimb(r, n)) \div b[n]
  IN IF Len(r) < n THEN 0
     ELSE BDigitDown(r, b, IF est > LimbBase - 1 THEN LimbBase - 1 ELSE est)

\* long division by b, one limb of a at a time from limb i down; r is the
\* rest so far and q the digits found; returns <<quotient, rest>>
RECURSIVE BDivFrom(_, _, _, _, _)

\* the digit d of limb i is known
BDivDigit(a, b, i, r2, q, d) ==
  BDivFrom(a, b, i - 1, BSub(r2, BMulSmall(b, d)), <<d>> \o q)

\* limb i has been brought down into r2
BDivStep(a, b, i, r2, q) == BDivDigit(a, b, i, r2, q, BDigit(r2, b))

BDivFrom(a, b, i, r, q) ==
  IF i = 0 THEN <<BNorm(q), r>>
  ELSE IF r = <<>> /\ a[i] = 0 THEN BDivFrom(a, b, i - 1, r, <<0>> \o q)
  ELSE BDivStep(a, b, i, BNorm(<<a[i]>> \o r), q)

\* the top Len(b) - 1 limbs of a are below b: the first digit is that of the
\* limb under them
BDivAll(a, b) ==
  IF Len(a) < Len(b) THEN <<<<>>, a>>
  ELSE BDivFrom(a, b, Len(a) - Len(b) + 1,
                SubSeq(a, Len(a) - Len(b) + 2, Len(a)), <<>>)

\* <<floor(a / b), r>> for b # 0, with r = <<>> exactly when b divides a
\* (r is a mod b scaled by the power of 2 that normalises b)
BDivMod(a, b) ==
  LET sh == LimbBits - IntBitLen(b[Len(b)])
  IN BDivAll(BShl(a, sh), BShl(b, sh))

\* floor(sqrt(t)) for t < LimbBase^2
IntSqrt(t) == CHOOSE r \in 0..LimbBase : r * r <= t /\ (r + 1) * (r + 1) > t

\* floor(sqrt(a)) by Newton's iteration from an estimate x >= sqrt(a)
RECURSIVE BSqrtFrom(_, _)

BSqrtNext(a, x, y) == IF BCmp(y, x) >= 0 THEN x ELSE BSqrtFrom(a, y)

BSqrtFrom(a, x) == BSqrtNext(a, x, BShr(BAdd(x, BDivMod(a, x)[1]), 1))

\* the estimate: the root of a's top bits above bit 2k, one up, times 2^k
BSqrtAbove(a, k) == BShl(BFromInt(IntSqrt(BToInt(BShr(a, 2 * k))) + 1), k)

BSqrtDrop(a) == IF BLen(a) > 2 * LimbBits - 1 THEN (BLen(a) - 2 * LimbBits + 2) \div 2 ELSE 0

BSqrt(a) == IF a = <<>> THEN a ELSE BSqrtFrom(a, BSqrtAbove(a, BSqrtDrop(a)))

(***************************************************************************)
(* f64: IEEE-754 binary64.  A value is a record [k, s, m, e]: k is "nan",  *)
(* "inf" or "fin", s the sign bit, and a finite value is (-1)^s * m * 2^e  *)
(* with the significand m < 2^MantBits and either m >= 2^(MantBits-1)      *)
(* (normal) or e = EMin (subnormal); zero has m = <<>> and e = 0.  The     *)
(* form is canonical, so equal records are equal numbers (but for +0, -0). *)
(***************************************************************************)
MantBits == 53
EMin == -1074
EMaxLsb == 971

NaN == [k |-> "nan", s |-> 0, m |-> <<>>, e |-> 0]
Inf(s) == [k |-> "inf", s |-> s, m |-> <<>>, e |-> 0]
Zero(s) == [k |-> "fin", s |-> s, m |-> <<>>, e |-> 0]

IsNaN(a) == a.k = "nan"
IsInf(a) == a.k = "inf"
IsZero(a) == a.k = "fin" /\ a.m = <<>>

\* the f64 of sign s and magnitude m * 2^t, m already rounded to MantBits bits
FPack(s, m, t) ==
  IF m = <<>> THEN Zero(s)
  ELSE IF t > EMaxLsb THEN Inf(s)
  ELSE [k |-> "fin", s |-> s, m |-> m, e |-> t]

\* round to nearest, ties to even: the f64 nearest to (-1)^s * x, where
\* x = n * 2^e when sticky is FALSE and n * 2^e < x < (n + 1) * 2^e when it is
\* TRUE (then n has more than MantBits + 1 bits)
\* the exponent of the last place kept: never below the subnormal one
FLastPlace(t) == IF t > EMin THEN t ELSE EMin

\* q is n without its low bits: one up when they are above half a unit of
\* its last place, or exactly half and q is odd
FNearest(q, half, st) == IF half /\ (st \/ BIsOdd(q)) THEN BAdd(q, <<1>>) ELSE q

\* rounding up may have carried into one bit too many
FCarry(s, m, t0) ==
  IF BLen(m) > MantBits THEN FPack(s, BShr(m, 1), t0 + 1) ELSE FPack(s, m, t0)

FRoundAt(s, n, e, sticky, t0) ==
  IF t0 <= e
  THEN FPack(s, BShl(n, e - t0), t0)
  ELSE FCarry(s, FNearest(BShr(n, t0 - e), BBit(n, t0 - e - 1) = 1,
                          sticky \/ BLowNonZero(n, t0 - e - 1)), t0)

FRound(s, n, e, sticky) ==
  IF n = <<>> THEN Zero(s)
  ELSE FRoundAt(s, n, e, sticky, FLastPlace(e + BLen(n) - MantBits))

FNeg(a) == IF IsNaN(a) THEN a ELSE [a EXCEPT !.s = 1 - a.s]

\* u32 / i32 as f64
FFromInt(n) ==
  FRound(IF n < 0 THEN 1 ELSE 0, BFromInt(IF n < 0 THEN -n ELSE n), 0, FALSE)

FFromBig(n) == FRound(0, n, 0, FALSE)

\* (-1)^sx * x * 2^e + (-1)^sy * y * 2^e for x, y # 0
FAddAligned(sx, x, sy, y, e) ==
  IF sx = sy THEN FRound(sx, BAdd(x, y), e, FALSE)
  ELSE IF x = y THEN Zero(0)
  ELSE FRound(IF BCmp(x, y) > 0 THEN sx ELSE sy,
              IF BCmp(x, y) > 0 THEN BSub(x, y) ELSE BSub(y, x), e, FALSE)

\* hi + lo for hi.e >= lo.e
FAddOrdered(hi, lo) ==
  IF hi.e - lo.e > MantBits + 11
  THEN \* lo is below a quarter of hi's last place: it only decides the rounding
       FRound(hi.s, IF hi.s = lo.s THEN BShl(hi.m, 2) ELSE BSub(BShl(hi.m, 2), <<1>>),
              hi.e - 2, TRUE)
  ELSE FAddAligned(hi.s, BShl(hi.m, hi.e - lo.e), lo.s, lo.m, lo.e)

\* the sum of two finite nonzero values
FAddFin(a, b) == FAddOrdered(IF a.e >= b.e THEN a ELSE b, IF a.e >= b.e THEN b ELSE a)

FAdd(a, b) ==
  IF IsNaN(a) \/ IsNaN(b) THEN NaN
  ELSE IF IsInf(a) THEN (IF IsInf(b) /\ a.s # b.s THEN NaN ELSE a)
  ELSE IF IsInf(b) THEN b
  ELSE IF IsZero(a) /\ IsZero(b) THEN (IF a.s = b.s THEN a ELSE Zero(0))
  ELSE IF IsZero(a) THEN b
  ELSE IF IsZero(b) THEN a
  ELSE FAddFin(a, b)

FSub(a, b) == FAdd(a, FNeg(b))

FMul(a, b) ==
  LET s == (a.s + b.s) % 2
  IN IF IsNaN(a) \/ IsNaN(b) THEN NaN
     ELSE IF IsInf(a) \/ IsInf(b)
          THEN (IF IsZero(a) \/ IsZero(b) THEN NaN ELSE Inf(s))
     ELSE IF IsZero(a) \/ IsZero(b) THEN Zero(s)
     ELSE FRound(s, BMul(a.m, b.m), a.e + b.e, FALSE)

\* the quotient <<q, r>> of the significands, rounded; r # <<>> is the sticky bit
FDivRound(s, qr, e) == FRound(s, qr[1], e, qr[2] # <<>>)

\* a's significand is shifted left by sh so that the quotient has MantBits + 2 bits or more
FDivShifted(s, a, b, sh) == FDivRound(s, BDivMod(BShl(a.m, sh), b.m), a.e - b.e - sh)

FDivShift(a, b) ==
  IF MantBits + 3 + BLen(b.m) - BLen(a.m) > 0
  THEN MantBits + 3 + BLen(b.m) - BLen(a.m) ELSE 0

FDiv(a, b) ==
  LET s == (a.s + b.s) % 2
  IN IF IsNaN(a) \/ IsNaN(b) THEN NaN
     ELSE IF IsInf(a) THEN (IF IsInf(b) THEN NaN ELSE Inf(s))
     ELSE IF IsInf(b) THEN Zero(s)
     ELSE IF IsZero(b) THEN (IF IsZero(a) THEN NaN ELSE Inf(s))
     ELSE IF IsZero(a) THEN Zero(s)
     ELSE IF b.m = BShl(<<1>>, BLen(b.m) - 1)
          THEN \* b is a power of 2: the quotient is a's significand, rescaled
               FRound(s, a.m, a.e - b.e - (BLen(b.m) - 1), FALSE)
     ELSE FDivShifted(s, a, b, FDivShift(a, b))

\* r = floor(sqrt(n)); the root is exact when r * r = n
FSqrtRound(n, r, e) == FRound(0, r, e, BMul(r, r) # n)

FSqrtOf(n, e) == FSqrtRound(n, BSqrt(n), e)

\* a's significand is shifted left by sh, making the exponent even and the
\* root MantBits + 2 bits or more
FSqrtShifted(a, sh) == FSqrtOf(BShl(a.m, sh), (a.e - sh) \div 2)

FSqrtShift(a, k0) == k0 + ((a.e - k0) % 2)

FSqrtBits(a) == IF 2 * MantBits + 4 - BLen(a.m) > 0 THEN 2 * MantBits + 4 - BLen(a.m) ELSE 0

FSqrt(a) ==
  IF IsNaN(a) THEN NaN
  ELSE IF IsZero(a) THEN a
  ELSE IF a.s = 1 THEN NaN
  ELSE IF IsInf(a) THEN a
  ELSE FSqrtShifted(a, FSqrtShift(a, FSqrtBits(a)))

\* |a| < |b| for values that are not NaN
FLtMag(a, b) ==
  IF IsInf(a) THEN FALSE
  ELSE IF IsInf(b) THEN TRUE
  ELSE IF IsZero(b) THEN FALSE
  ELSE IF IsZero(a) THEN TRUE
  ELSE LET pa == BLen(a.m) + a.e
           pb == BLen(b.m) + b.e
       IN IF pa # pb THEN pa < pb
          ELSE IF a.e >= b.e THEN BCmp(BShl(a.m, a.e - b.e), b.m) < 0
          ELSE BCmp(a.m, BShl(b.m, b.e - a.e)) < 0

\* a < b
FLt(a, b) ==
  IF IsNaN(a) \/ IsNaN(b) THEN FALSE
  ELSE IF IsZero(a) /\ IsZero(b) THEN FALSE
  ELSE IF a.s # b.s THEN a.s = 1
  ELSE IF a.s = 0 THEN FLtMag(a, b)
  ELSE FLtMag(b, a)

\* f64::min: the other argument when one is NaN
FMin(a, b) ==
  IF IsNaN(a) THEN b
  ELSE IF IsNaN(b) THEN a
  ELSE IF FLt(b, a) THEN b ELSE a

\* `as` from f64 to an unsigned integer of w bits: toward zero, saturating,
\* NaN to 0.  The result is a natural number in limbs.
FTrunc(a, w) ==
  LET max == BSub(BShl(<<1>>, w), <<1>>)
  IN IF IsNaN(a) THEN <<>>
     ELSE IF a.s = 1 THEN <<>>
     ELSE IF IsInf(a) THEN max
     ELSE IF IsZero(a) THEN <<>>
     ELSE IF BLen(a.m) + a.e > w THEN max
     ELSE IF a.e >= 0 THEN BShl(a.m, a.e)
     ELSE BShr(a.m, -a.e)

\* the f64 of the literal n / d, correctly rounded, as rustc reads 3.2 = 32 / 10
FLit(n, d) == FDiv(FFromInt(n), FFromInt(d))

(***************************************************************************)
(* Vec2 and its operators (hadamard and Mul<f64> are never called).        *)
(***************************************************************************)
Vec2New(x, y) == [x |-> x, y |-> y]

\* x.powi(2) is x * x
Vec2Len(v) == FSqrt(FAdd(FMul(v.x, v.x), FMul(v.y, v.y)))

cross(a, b) ==
  Vec2New(FSub(FMul(a.x, b.x), FMul(a.y, b.y)),
          FAdd(FMul(a.x, b.y), FMul(a.y, b.x)))

Vec2Add(a, b) == Vec2New(FAdd(a.x, b.x), FAdd(a.y, b.y))

Vec2Sub(a, b) == Vec2New(FSub(a.x, b.x), FSub(a.y, b.y))

Vec2Div(a, r) == Vec2New(FDiv(a.x, r), FDiv(a.y, r))

(***************************************************************************)
(* mandelbrot(n, c): n times z = z.cross(z) + c from z = c, then |z|.      *)
(* There is no early exit: an escaping orbit runs on into inf and NaN.     *)
(* The loop is run one pass at a time (MandelbrotPass below).              *)
(***************************************************************************)
\* z = z.cross(z) + c;
MandelbrotBody(z, c) == Vec2Add(cross(z, z), c)

ACCUARACY == 30
BIAS == 500

(***************************************************************************)
(* render_mandelbrot(pos, size, width, depth)                              *)
(***************************************************************************)
\* the height had the cast rounded to nearest instead of truncating
RenderHeightRounded(size, width) ==
  FTrunc(FAdd(FDiv(FMul(FFromInt(width), size.y), size.x), FLit(1, 2)), 32)

\* let height = (width as f64 * size.y / size.x) as u32;  a natural in limbs
RenderHeight(size, width) == FTrunc(FDiv(FMul(FFromInt(width), size.y), size.x), 32)

\* let x_step = size.x / width as f64;
XStep(size, width) == FDiv(size.x, FFromInt(width))

\* let y_step = size.y / height as f64;
YStep(size, height) == FDiv(size.y, FFromBig(height))

\* let scale = BIAS * depth as f64;
Scale(depth) == FMul(FFromInt(BIAS), FFromInt(depth))

\* the colour had the cast rounded to nearest instead of truncating
ColorRounded(z, scale) ==
  BToInt(FTrunc(FAdd(FMul(FDiv(z, scale), FFromInt(255)), FLit(1, 2)), 8))

\* let color = (z / scale * 255.0) as u8;
Color(z, scale) == BToInt(FTrunc(FMul(FDiv(z, scale), FFromInt(255)), 8))

\* Vec2::new(mx, my): the point of pixel (px, py)
PixelPoint(pos, xstep, ystep, px, py) ==
  Vec2New(FAdd(pos.x, FMul(FFromInt(px), xstep)),
          FAdd(pos.y, FMul(FFromInt(py), ystep)))

\* Rgb([0, color, 0]) for the z the evaluator's loop ended with
Rgb(len, scale) == <<0, Color(FMin(len, scale), scale), 0>>

PixelRgb(zEnd, depth) == Rgb(Vec2Len(zEnd), Scale(depth))

\* RgbImage::new(width, height): every pixel zero
NewImage(width, height) == [p \in (0..(width - 1)) \X (0..(height - 1)) |-> <<0, 0, 0>>]

(***************************************************************************)
(* render_to_texture(pos, size, depth): render_mandelbrot at width 1200,   *)
(* encoded and uploaded.  The frame loop holds the texture of the image;   *)
(* the model holds the call that made it (the rasterizer is a function of  *)
(* its arguments) and the image's dimensions.                              *)
(***************************************************************************)
TextureWidth == 1200

render_to_texture(pos, size, depth) ==
  [pos |-> pos, size |-> size, width |-> TextureWidth,
   height |-> RenderHeight(size, TextureWidth), depth |-> depth]

(***************************************************************************)
(* main: the zoom stack and the frame loop                                 *)
(***************************************************************************)
BasePos == Vec2New(FLit(-25, 10), FLit(-12, 10))
BaseSize == Vec2New(FLit(32, 10), FLit(24, 10))

Viewport(pos, size) == [pos |-> pos, size |-> size]

\* stack.last().unwrap()
Top(stk) == stk[Len(stk)]

\* the new size had the zoom factor been 2
NewSizeHalved(size) == Vec2Div(size, FFromInt(2))

\* let new_size = size / 4.0;
NewSize(size) == Vec2Div(size, FFromInt(4))

\* let half_new_size = new_size / 2.0;
HalfNewSize(newSize) == Vec2Div(newSize, FFromInt(2))

\* mouse_pos.x as f64: an f32 is an f64 of the same value
F32AsF64(a) == a

\* let clicked_pos = Vec2::new(pos.x + (mouse_pos.x as f64 + 1.0) / 2.0 * size.x, ...)
ClickedPos(pos, size, mouse) ==
  Vec2New(FAdd(pos.x, FMul(FDiv(FAdd(F32AsF64(mouse.x), FFromInt(1)), FFromInt(2)), size.x)),
          FAdd(pos.y, FMul(FDiv(FAdd(F32AsF64(mouse.y), FFromInt(1)), FFromInt(2)), size.y)))

\* let new_pos = clicked_pos - half_new_size;
NewPos(pos, size, mouse) == Vec2Sub(ClickedPos(pos, size, mouse), HalfNewSize(NewSize(size)))

\* the depth ZoomIn renders at: stack.len() as u32, read before the push
ZoomInDepth(stk) == Len(stk)

\* the depth ZoomOut would render at had it read stack.len() before the pop
ZoomOutDepthBeforePop(popped) == Len(popped) + 1

\* the depth ZoomOut renders at: stack.len() as u32, read after the pop
ZoomOutDepth(popped) == Len(popped)

\* the chain without the stack.len() > 1 test of the else-if
BranchPopsBase(left, right, stk) ==
  IF left THEN "in"
  ELSE IF right /\ Len(stk) > 0 THEN "out"
  ELSE "none"

\* the chain had the right button been tested first
BranchRightFirst(left, right, stk) ==
  IF right /\ Len(stk) > 1 THEN "out"
  ELSE IF left THEN "in"
  ELSE "none"

\* the if / else-if chain of the loop body: which branch a frame takes
Branch(left, right, stk) ==
  IF left THEN "in"
  ELSE IF right /\ Len(stk) > 1 THEN "out"
  ELSE "none"

(***************************************************************************)
(* State.  The frame loop: stack and texture are main's locals.  drawn is  *)
(* what the last frame's draw_texture_ex put on the screen, input what the *)
(* last frame polled, calls the render calls the last frame made, prev the *)
(* last transition (its kind, and the texture and top viewport before it), *)
(* under, for each stack entry, the viewport that was current when it was  *)
(* pushed, pc whether main runs or an unwrap() has panicked.               *)
(* One call of render_mandelbrot: rin its arguments, rpc its position,     *)
(* rheight and rimage its locals, rix and riy the loop counters; in the    *)
(* evaluator, rc is the point, rz the orbit and rn the passes done.        *)
(***************************************************************************)
VARIABLES stack, texture, drawn, input, calls, prev, under, pc,
          rin, rpc, rheight, rimage, rix, riy, rc, rz, rn

navVars == <<stack, texture, drawn, input, calls, prev, under, pc>>
renderVars == <<rin, rpc, rheight, rimage, rix, riy, rc, rz, rn>>
vars == <<stack, texture, drawn, input, calls, prev, under, pc,
          rin, rpc, rheight, rimage, rix, riy, rc, rz, rn>>

\* bounds of the model
MaxDepth == 3
DeepMax == 540
MaxWidth == 2
MaxRenderDepth == 2

\* mouse_position_local(): points of [-1, 1] x [-1, 1], each an f32
Clicks ==
  {Vec2New(FFromInt(-1), FFromInt(-1)), Vec2New(FFromInt(0), FFromInt(0)),
   Vec2New(FLit(3, 8), FLit(-1, 2)), Vec2New(FFromInt(1), FFromInt(1))}

Centre == Vec2New(FFromInt(0), FFromInt(0))

\* main before the loop: render the base viewport at depth 1, then push it
InitMain ==
  /\ stack = <<Viewport(BasePos, BaseSize)>>
  /\ texture = render_to_texture(stack[1].pos, stack[1].size, 1)
  /\ drawn = <<>>
  /\ input = [left |-> FALSE, right |-> FALSE, mouse |-> <<>>]
  /\ calls = <<texture>>
  /\ prev = [op |-> "init", texture |-> texture, top |-> stack[1]]
  /\ under = stack
  /\ pc = "running"

NoRender ==
  /\ rin = [pos |-> stack[1].pos, size |-> stack[1].size, width |-> 0, depth |-> 1]
  /\ rpc = "idle"
  /\ rheight = 0
  /\ rimage = <<>>
  /\ rix = 0
  /\ riy = 0
  /\ rc = <<>>
  /\ rz = <<>>
  /\ rn = 0

Init == InitMain /\ NoRender

\* a frame in which the left button was released (the right one may have
\* been too): lines 139-150, then the draw
FrameZoomIn(mouse, left, right, max) ==
  /\ pc = "running"
  /\ Branch(left, right, stack) = "in"
  /\ Len(stack) < max
  /\ stack' = Append(stack, Viewport(NewPos(Top(stack).pos, Top(stack).size, mouse),
                                      NewSize(Top(stack).size)))
  /\ texture' = render_to_texture(Top(stack').pos, Top(stack').size, ZoomInDepth(stack))
  /\ calls' = <<texture'>>
  /\ drawn' = <<texture'>>
  /\ prev' = [op |-> "in", texture |-> texture, top |-> Top(stack)]
  /\ under' = Append(under, Top(stack))
  /\ input' = [left |-> left, right |-> right, mouse |-> <<mouse>>]
  /\ pc' = pc
  /\ UNCHANGED renderVars

\* a frame in which the else-if branch is taken: lines 151-155, then the draw
FrameZoomOut(left, right) ==
  /\ pc = "running"
  /\ Branch(left, right, stack) = "out"
  /\ stack' = SubSeq(stack, 1, Len(stack) - 1)
  /\ under' = SubSeq(under, 1, Len(under) - 1)
  /\ IF stack' = <<>>
     THEN \* stack.last().unwrap() on an empty stack
          /\ pc' = "panicked"
          /\ UNCHANGED <<texture, calls, drawn>>
     ELSE /\ texture' = render_to_texture(Top(stack').pos, Top(stack').size,
                                          ZoomOutDepth(stack'))
          /\ calls' = <<texture'>>
          /\ drawn' = <<texture'>>
          /\ pc' = pc
  /\ prev' = [op |-> "out", texture |-> texture, top |-> Top(stack)]
  /\ input' = [left |-> left, right |-> right, mouse |-> <<>>]
  /\ UNCHANGED renderVars

\* any other frame: neither branch is taken, the texture is drawn again
FrameIdle(left, right) ==
  /\ pc = "running"
  /\ Branch(left, right, stack) = "none"
  /\ calls' = <<>>
  /\ drawn' = <<texture>>
  /\ input' = [left |-> left, right |-> right, mouse |-> <<>>]
  /\ UNCHANGED <<stack, texture, prev, under, pc>>
  /\ UNCHANGED renderVars

ZoomIn == \E mouse \in Clicks, left, right \in BOOLEAN : FrameZoomIn(mouse, left, right, MaxDepth)
ZoomOut == \E left, right \in BOOLEAN : FrameZoomOut(left, right)
Idle == \E left, right \in BOOLEAN : FrameIdle(left, right)

Next == ZoomIn \/ ZoomOut \/ Idle

Spec == Init /\ [][Next]_vars

\* the same loop when every frame is a left click at the centre, followed
\* to the depth where the f64 extent runs out
DeepZoomIn == FrameZoomIn(Centre, TRUE, FALSE, DeepMax)

NextDeep == DeepZoomIn

SpecDeep == Init /\ [][NextDeep]_vars

(***************************************************************************)
(* One call of render_mandelbrot on each of a set of arguments.            *)
(***************************************************************************)
\* a valid viewport and the ways for its extent to be degenerate or inverted
Degenerate(v) ==
  {v,
   Viewport(v.pos, Vec2New(Zero(0), Zero(0))),
   Viewport(v.pos, Vec2New(FNeg(v.size.x), v.size.y)),
   Viewport(v.pos, Vec2New(v.size.x, FNeg(v.size.y))),
   Viewport(v.pos, Vec2New(v.size.x, Zero(0)))}

RenderViewports ==
  Degenerate(Viewport(BasePos, BaseSize))
    \cup {Viewport(Vec2New(FFromInt(-2), Zero(0)), Vec2New(FFromInt(2), FFromInt(2)))}

InitRender ==
  /\ InitMain
  /\ \E v \in RenderViewports, w \in 0..MaxWidth, d \in 1..MaxRenderDepth :
       rin = [pos |-> v.pos, size |-> v.size, width |-> w, depth |-> d]
  /\ rpc = "call"
  /\ rheight = 0
  /\ rimage = <<>>
  /\ rix = 0
  /\ riy = 0
  /\ rc = <<>>
  /\ rz = <<>>
  /\ rn = 0

\* lines 91-94: the height, the steps and the zeroed image
RenderEnter ==
  /\ rpc = "call"
  /\ rheight' = BToInt(RenderHeight(rin.size, rin.width))
  /\ rimage' = NewImage(rin.width, rheight')
  /\ rix' = 0
  /\ riy' = 0
  /\ rpc' = "loop"
  /\ UNCHANGED <<rin, rc, rz, rn>>
  /\ UNCHANGED navVars

\* lines 97-100 and 78: the pixel's point, handed to mandelbrot
PixelBegin ==
  /\ rpc = "loop"
  /\ rix < rin.width
  /\ riy < rheight
  /\ rc' = PixelPoint(rin.pos, XStep(rin.size, rin.width),
                      YStep(rin.size, BFromInt(rheight)), rix, riy)
  /\ rz' = rc'
  /\ rn' = 0
  /\ rpc' = "iter"
  /\ UNCHANGED <<rin, rheight, rimage, rix, riy>>
  /\ UNCHANGED navVars

\* lines 79-81: one pass of for _ in 0..n, n = depth * ACCUARACY
MandelbrotPass ==
  /\ rpc = "iter"
  /\ rn < rin.depth * ACCUARACY
  /\ rz' = MandelbrotBody(rz, rc)
  /\ rn' = rn + 1
  /\ UNCHANGED <<rin, rpc, rheight, rimage, rix, riy, rc>>
  /\ UNCHANGED navVars

\* lines 82 and 99-102: z.len(), the colour, put_pixel, and on to the next pixel
PixelEnd ==
  /\ rpc = "iter"
  /\ rn >= rin.depth * ACCUARACY
  /\ rimage' = [rimage EXCEPT ![<<rix, riy>>] = PixelRgb(rz, rin.depth)]
  /\ IF riy + 1 < rheight
     THEN rix' = rix /\ riy' = riy + 1
     ELSE rix' = rix + 1 /\ riy' = 0
  /\ rpc' = "loop"
  /\ UNCHANGED <<rin, rheight, rc, rz, rn>>
  /\ UNCHANGED navVars

\* line 105: both loops are over
RenderReturn ==
  /\ rpc = "loop"
  /\ rix >= rin.width \/ rheight = 0
  /\ rpc' = "done"
  /\ UNCHANGED <<rin, rheight, rimage, rix, riy, rc, rz, rn>>
  /\ UNCHANGED navVars

NextRender == RenderEnter \/ PixelBegin \/ MandelbrotPass \/ PixelEnd \/ RenderReturn

SpecRender == InitRender /\ [][NextRender]_vars

(***************************************************************************)
(* Properties.  A frame is told from the state after it: input is what the *)
(* frame polled.  Under Spec a frame that polled a left release is a       *)
(* ZoomIn, one that polled a right release alone on a stack longer than 1  *)
(* is a ZoomOut, and any other frame takes neither branch.                 *)
(***************************************************************************)
\* a <= b
FLe(a, b) == ~IsNaN(a) /\ ~IsNaN(b) /\ ~FLt(b, a)

Half == FLit(1, 2)

ZoomInFrame == input'.left
ZoomOutFrame == ~input'.left /\ input'.right /\ Len(stack) > 1
OtherFrame == ~input'.left /\ ~(input'.right /\ Len(stack) > 1)

Renders(call, v, depth) ==
  /\ call.pos = v.pos
  /\ call.size = v.size
  /\ call.width = 1200
  /\ call.depth = depth

\* C1: every render a frame makes (the startup render included) is of the
\* viewport on top of the zoom stack, at a depth equal to the stack's
\* length; for a ZoomIn on a stack of length k that is k + 1.
DepthIsStackLength ==
  \A i \in 1..Len(calls) : Renders(calls[i], Top(stack), Len(stack))

\* C2: a ZoomOut in the frame right after a ZoomIn returns to the top
\* viewport of before the ZoomIn, and its render is the call (viewport,
\* width, depth) whose image was on display before the ZoomIn.
ZoomInThenOutReproduces ==
  [][(input.left /\ prev.op = "in" /\ ZoomOutFrame)
       => /\ Top(stack') = prev.top
          /\ calls' = <<prev.texture>>
          /\ texture' = prev.texture]_vars

\* C3: a ZoomOut on a stack of length > 1 shortens the stack by exactly one,
\* leaves the remaining entries as they were, makes current the viewport
\* that was current when the popped entry was pushed, and renders that
\* viewport once at a depth equal to the stack's length after the pop.
ZoomOutRestores ==
  [][ZoomOutFrame
       => /\ Len(stack') = Len(stack) - 1
          /\ \A i \in 1..Len(stack') : stack'[i] = stack[i]
          /\ Top(stack') = under[Len(stack)]
          /\ Len(calls') = 1
          /\ Renders(calls'[1], Top(stack'), Len(stack'))
          /\ texture' = calls'[1]]_vars

ZoomOutRestoresWitness ==
  /\ prev.op = "out"
  /\ input.right
  /\ ~input.left
  /\ Len(stack) = 2
  /\ texture.depth = 2
  /\ calls = <<texture>>

\* C4: the stack is never empty and its bottom entry is the base viewport
\* (-2.5, -1.2), (3.2, 2.4); a frame that polled neither a left release nor
\* a right release on a stack longer than 1 leaves the stack and the
\* texture as they were, renders nothing and draws the same image again.
BaseIsFloor ==
  /\ [](/\ stack # <<>>
        /\ stack[1] = Viewport(Vec2New(FLit(-25, 10), FLit(-12, 10)),
                               Vec2New(FLit(32, 10), FLit(24, 10))))
  /\ [][OtherFrame
          => /\ stack' = stack
             /\ texture' = texture
             /\ calls' = <<>>
             /\ drawn' = <<texture>>
             /\ (drawn # <<>> => drawn' = drawn)]_vars

BaseIsFloorWitness ==
  /\ input.right
  /\ ~input.left
  /\ Len(stack) = 1
  /\ calls = <<>>
  /\ drawn = <<texture>>
  /\ prev.op = "out"

\* C5: a ZoomIn with click (cx, cy) on the current viewport (origin, extent)
\* lengthens the stack by exactly one, leaves the earlier entries as they
\* were, and pushes extent' = extent / 4 on both axes with
\* origin' = origin + ((cx+1)/2 * extent.x, (cy+1)/2 * extent.y) - extent'/2,
\* each operation being the f64 one.
ZoomInAxis(o, e, c, o2, e2) ==
  /\ e2 = FDiv(e, FFromInt(4))
  /\ FMul(e2, FFromInt(4)) = e
  /\ o2 = FSub(FAdd(o, FMul(FDiv(FAdd(c, FFromInt(1)), FFromInt(2)), e)),
               FDiv(e2, FFromInt(2)))

ZoomInPushed(old, c, new) ==
  /\ ZoomInAxis(old.pos.x, old.size.x, c.x, new.pos.x, new.size.x)
  /\ ZoomInAxis(old.pos.y, old.size.y, c.y, new.pos.y, new.size.y)

ZoomInPushes ==
  [][ZoomInFrame
       => /\ Len(stack') = Len(stack) + 1
          /\ \A i \in 1..Len(stack) : stack'[i] = stack[i]
          /\ Len(input'.mouse) = 1
          /\ ZoomInPushed(Top(stack), input'.mouse[1], Top(stack'))]_vars

\* the example of the claim: the base viewport clicked at (0, 0) gives the
\* extent (0.8, 0.6) and the origin (-1.3, -0.3), the origin's x being the
\* f64 next above -1.3
ZoomInPushesWitness ==
  /\ Len(stack) = 2
  /\ input.left
  /\ input.mouse = <<Vec2New(Zero(0), Zero(0))>>
  /\ stack[2].size = Vec2New(FLit(8, 10), FLit(6, 10))
  /\ stack[2].pos.y = FLit(-3, 10)
  /\ FLt(FLit(-13, 10), stack[2].pos.x)
  /\ FLt(stack[2].pos.x, FLit(-1299999, 1000000))

\* C10: a frame makes at most one transition and at most one render, a left
\* release wins over a right release of the same frame, a frame that
\* changes the stack renders and draws that render, and what a frame draws
\* is the texture, a render of the viewport on top of the stack.
OneTransitionPerFrame ==
  /\ [](drawn # <<>>
          => /\ drawn = <<texture>>
             /\ texture.pos = Top(stack).pos
             /\ texture.size = Top(stack).size
             /\ texture.width = 1200)
  /\ [][/\ Len(stack') \in {Len(stack) - 1, Len(stack), Len(stack) + 1}
        /\ Len(calls') <= 1
        /\ (input'.left /\ input'.right) => Len(stack') = Len(stack) + 1
        /\ stack' # stack => (calls' # <<>> /\ drawn' = calls')]_vars

OneTransitionPerFrameWitness ==
  /\ input.left
  /\ input.right
  /\ prev.op = "in"
  /\ Len(stack) = 3
  /\ drawn = <<texture>>
  /\ texture.depth = 2

\* C7: every viewport on the zoom stack, and the one the texture is a
\* render of, has an extent that is positive on both axes.
Positive(size) == FLt(Zero(0), size.x) /\ FLt(Zero(0), size.y)

ExtentsPositive ==
  /\ \A i \in 1..Len(stack) : Positive(stack[i].size)
  /\ Positive(texture.size)

\* C6: a call with width 0 or with an extent that is not positive on both
\* axes never returns a buffer.
ValidCall(call) == call.width > 0 /\ Positive(call.size)

RejectsInvalidCall == ~ValidCall(rin) => rpc # "done"

\* width as f64 * size.y / size.x of the call
Aspect(call) == FDiv(FMul(FFromInt(call.width), call.size.y), call.size.x)

\* n is x cut toward zero, for 0 <= x < 2^31 - 1
TruncatesTo(x, n) == FLe(FFromInt(n), x) /\ FLt(x, FFromInt(n + 1))

\* n is x rounded to nearest, halves upward, for 0 <= x < 2^31 - 1
RoundsTo(x, n) == TruncatesTo(FAdd(x, Half), n)

\* C8 as stated: a valid call's buffer is width wide and
\* round(width * extent.y / extent.x) high, rounded to nearest.
HeightIsRounded ==
  (ValidCall(rin) /\ rpc = "done")
    => /\ DOMAIN rimage = (0..(rin.width - 1)) \X (0..(rheight - 1))
       /\ RoundsTo(Aspect(rin), rheight)

\* C8, amended: a valid call's buffer is width wide and as high as
\* width * extent.y / extent.x cut toward zero, and the rows of pixels are
\* extent.y / height apart from the origin.
HeightIsTruncated ==
  (ValidCall(rin) /\ rpc # "call")
    => /\ DOMAIN rimage = (0..(rin.width - 1)) \X (0..(rheight - 1))
       /\ TruncatesTo(Aspect(rin), rheight)
       /\ rpc = "iter"
            => rc.y = FAdd(rin.pos.y,
                           FMul(FFromInt(riy), FDiv(rin.size.y, FFromInt(rheight))))

HeightIsTruncatedWitness ==
  /\ rpc = "done"
  /\ rin.width = 2
  /\ rin.size = BaseSize
  /\ rheight = 1
  /\ DOMAIN rimage = {<<0, 0>>, <<1, 0>>}

\* the pixel's point, origin + (ix * step.x, iy * step.y)
PointOf(call, height, px, py) ==
  Vec2New(FAdd(call.pos.x, FMul(FFromInt(px), FDiv(call.size.x, FFromInt(call.width)))),
          FAdd(call.pos.y, FMul(FFromInt(py), FDiv(call.size.y, FFromInt(height)))))

\* z * z + c of complex numbers
SquarePlus(z, c) ==
  Vec2New(FAdd(FSub(FMul(z.x, z.x), FMul(z.y, z.y)), c.x),
          FAdd(FMul(FFromInt(2), FMul(z.x, z.y)), c.y))

Magnitude(z) == FSqrt(FAdd(FMul(z.x, z.x), FMul(z.y, z.y)))

\* min(raw, bound) / bound * 255, a raw value that is not a number counting
\* as the bound
Intensity(raw, bound) ==
  FMul(FDiv(IF IsNaN(raw) \/ FLt(bound, raw) THEN bound ELSE raw, bound), FFromInt(255))

\* the orbit of a pixel starts at the pixel's point, every pass squares it
\* and adds the point, and the pixel is coloured after 30 * depth passes
EscapeMagnitude ==
  /\ (rpc = "loop" /\ rpc' = "iter")
       => /\ rc' = PointOf(rin, rheight, rix, riy)
          /\ rz' = rc'
          /\ rn' = 0
  /\ (rpc = "iter" /\ rpc' = "iter")
       => /\ rz' = SquarePlus(rz, rc)
          /\ rn' = rn + 1
          /\ rc' = rc
  /\ (rpc = "iter" /\ rpc' = "loop") => rn = 30 * rin.depth

PixelIs(green) ==
  /\ rimage'[<<rix, riy>>] = <<0, green, 0>>
  /\ \A p \in DOMAIN rimage : p # <<rix, riy>> => rimage'[p] = rimage[p]
  /\ DOMAIN rimage' = DOMAIN rimage

\* C9 as stated: the pixel is (0, round(min(raw, bound) / bound * 255), 0),
\* rounded to nearest.
ColorIsRounded ==
  [][(rpc = "iter" /\ rpc' = "loop")
       => \E g \in 0..255 :
            /\ PixelIs(g)
            /\ RoundsTo(Intensity(Magnitude(rz), FFromInt(500 * rin.depth)), g)]_vars

\* C9, amended: with raw the magnitude of the pixel's orbit after 30 * depth
\* passes and bound = 500 * depth, the pixel is (0, g, 0) with g in 0..255
\* the value min(raw, bound) / bound * 255 cut toward zero; a raw value at
\* or above the bound, or one that is not a number, gives 255; no other
\* pixel changes.
ColorIsTruncated ==
  [][/\ EscapeMagnitude
     /\ (rpc = "iter" /\ rpc' = "loop")
          => \E g \in 0..255 :
               /\ PixelIs(g)
               /\ TruncatesTo(Intensity(Magnitude(rz), FFromInt(500 * rin.depth)), g)
               /\ (FLe(FFromInt(500 * rin.depth), Magnitude(rz)) => g = 255)
               /\ (IsNaN(Magnitude(rz)) => g = 255)]_vars

\* the render of (-2, 0), (2, 2) at width 2 and depth 1: the pixel of the
\* point (-1, 0), whose orbit ends at magnitude 1, is 0.51 cut to 0, and
\* the pixels of the row below, whose orbits leave every bound, are 255
ColorIsTruncatedWitness ==
  /\ rpc = "done"
  /\ rin.pos = Vec2New(FFromInt(-2), Zero(0))
  /\ rin.size = Vec2New(FFromInt(2), FFromInt(2))
  /\ rin.width = 2
  /\ rin.depth = 1
  /\ rimage[<<1, 0>>] = <<0, 0, 0>>
  /\ rimage[<<0, 1>>] = <<0, 255, 0>>


====
